---------------------------- MODULE Spec2Model ----------------------------
(***************************************************************************)
(* Timing quantization and parameter application of the Leach CCD          *)
(* controller (LeachControllerTimingProcedures.cpp).                       *)
(*                                                                         *)
(* A duration (a C++ double, in micro-seconds) is represented as an        *)
(* integer number of ticks, TicksPerNs ticks to the nanosecond, so that a  *)
(* duration can carry a fraction of a nanosecond, which the conversion     *)
(* (int)(time_in_us*1000) of CalculateTiming discards.  The product        *)
(* time_in_us*1000 is taken exactly; durations are non-negative.           *)
(*                                                                         *)
(* The command transport (pArcDev->Command) is an external collaborator:   *)
(* every reply is a nondeterministic choice from Replies.                  *)
(***************************************************************************)
EXTENDS Integers, Sequences, FiniteSets

VARIABLES
    ItgSpeed,          \* this->CCDParams.ItgSpeed
    op,                \* the member function called last ("none" at start)
    callTime,          \* its duration argument, in ticks
    callGain,          \* its gain argument (0 when it has none)
    callSpeed,         \* the speed argument of ApplyGainAndSpeed (0 otherwise)
    requests,          \* pArcDev->Command calls made during that call, in order
    replies,           \* the replies the transport gave to them, in order
    ret,               \* the value the call returned
    lastIntegralTime   \* integralTime of the latest ApplyNewIntegralTimeAndGain
                       \* call, in ticks; -1 when there was none

vars == <<ItgSpeed, op, callTime, callGain, callSpeed, requests, replies, ret,
          lastIntegralTime>>

-----------------------------------------------------------------------------
(* Bounds of the model *)

\* Resolution of a duration: ticks per nanosecond.
TicksPerNs == 2

\* Every duration of 0 .. MaxNs nanoseconds, tick by tick, is an input of
\* CalculateTiming: up to 164.2 us, past the 163 us clamp.
MaxNs == 164200

-----------------------------------------------------------------------------
(* Durations *)

\* A duration of n nanoseconds, in ticks.
Ns(n) == n * TicksPerNs

\* A duration of n micro-seconds, in ticks.
Us(n) == Ns(n * 1000)

Durations == 0 .. Ns(MaxNs)

-----------------------------------------------------------------------------
(* int arithmetic *)

\* x | 0x80, for x >= 0: bit 7 is set when it is not set already.
Or0x80(x) == IF (x \div 128) % 2 = 1 THEN x ELSE x + 128

\* x << 16 in a 32-bit int.  The operand is at most 163000/320 | 0x80 (the
\* clamp bounds it), so the shift never reaches the sign bit and is the
\* product with 2^16.
ShiftLeft16(x) == x * 65536

-----------------------------------------------------------------------------
(* LeachController::CalculateTiming *)

ClampTime_NoClamp(time_in_us) == time_in_us

\* if (time_in_us>163) time_in_us = 163;
ClampTime(time_in_us) ==
    IF time_in_us > Us(163) THEN Us(163) ELSE time_in_us

\* fiTime_ns = time_in_us*1000;  iTime_ns = (int) fiTime_ns;
\* the cast drops the fraction of a nanosecond.
ToNs(time_in_us) == time_in_us \div TicksPerNs

\* bigreminder
BigReminder(iTime_ns) ==
    IF (iTime_ns % 320) > 160 THEN 320 - (iTime_ns % 320) ELSE iTime_ns % 320

\* littlereminder
LittleReminder(iTime_ns) ==
    IF (iTime_ns % 40) > 20 THEN 40 - (iTime_ns % 40) ELSE iTime_ns % 40

TimingDsp_GeThreshold(iTime_ns) ==
    IF iTime_ns >= 4000
    THEN Or0x80(iTime_ns \div 320)
    ELSE IF BigReminder(iTime_ns) <= LittleReminder(iTime_ns)
         THEN Or0x80(iTime_ns \div 320)
         ELSE iTime_ns \div 40

TimingDsp_TiesFine(iTime_ns) ==
    IF iTime_ns > 4000
    THEN Or0x80(iTime_ns \div 320)
    ELSE IF BigReminder(iTime_ns) < LittleReminder(iTime_ns)
         THEN Or0x80(iTime_ns \div 320)
         ELSE iTime_ns \div 40

\* timing_dsp before the shift: the branch on iTime_ns > 4000 and, below it,
\* the comparison of the two remainders.
TimingDsp(iTime_ns) ==
    IF iTime_ns > 4000
    THEN Or0x80(iTime_ns \div 320)
    ELSE IF BigReminder(iTime_ns) <= LittleReminder(iTime_ns)
         THEN Or0x80(iTime_ns \div 320)
         ELSE iTime_ns \div 40

CalculateTiming(time_in_us) ==
    ShiftLeft16(TimingDsp(ToNs(ClampTime(time_in_us))))

-----------------------------------------------------------------------------
(* The quantizer on its own: one call of CalculateTiming on any duration *)

InitQ ==
    /\ ItgSpeed = 0
    /\ op = "none"
    /\ callTime \in Durations
    /\ callGain = 0
    /\ callSpeed = 0
    /\ requests = <<>>
    /\ replies = <<>>
    /\ ret = 0
    /\ lastIntegralTime = -1

CalculateTimingCall ==
    /\ op = "none"
    /\ op' = "CalculateTiming"
    /\ ret' = CalculateTiming(callTime)
    /\ UNCHANGED <<ItgSpeed, callTime, callGain, callSpeed, requests, replies,
                   lastIntegralTime>>

NextQ == CalculateTimingCall

SpecQ == InitQ /\ [][NextQ]_vars

-----------------------------------------------------------------------------
(* The command transport and the inputs of the applicators *)

\* The reply that acknowledges a command: 0x00444F4E, "DON".
DON == 4476750

\* Replies the transport may give: DON, 0xDEAD, 0.
Replies == {DON, 57005, 0}

\* Note: Gain can be one of = 1, 2, 5 or 10
Gains == {1, 2, 5, 10}

\* #SPEED = 0 for slow, 1 for fast
Speeds == {0, 1}

\* Durations the applicators are called with: 0.04, 0.3, 4.0, 4.4, the last
\* tick below 4.5, 4.5, 10.0, 41.0, 163.0 and 164.0 us.
CtlDurations ==
    {Ns(40), Ns(300), Us(4), Ns(4400), Ns(4500) - 1, Ns(4500), Us(10), Us(41),
     Us(163), Us(164)}

\* pArcDev->Command( module, opcode, args... ): the request handed over.
Command(module, opcode, args) ==
    [module |-> module, opcode |-> opcode, args |-> args]

-----------------------------------------------------------------------------
(* The controller *)

Init ==
    /\ ItgSpeed \in Speeds
    /\ op = "none"
    /\ callTime = 0
    /\ callGain = 0
    /\ callSpeed = 0
    /\ requests = <<>>
    /\ replies = <<>>
    /\ ret = 0
    /\ lastIntegralTime = -1

SelectSpeed_Inclusive(integralTime) ==
    IF integralTime <= Ns(4500) THEN 1 ELSE 0

\* if ( integralTime < 4.5 ) ItgSpeed = 1; else ItgSpeed = 0;
SelectSpeed(integralTime) ==
    IF integralTime < Ns(4500) THEN 1 ELSE 0

ApplyNewIntegralTimeAndGain_CitFirst ==
    \E integralTime \in CtlDurations, gain \in Gains, r1 \in Replies,
       r2 \in Replies :
        LET timing_dsp == CalculateTiming(integralTime)
        IN  /\ ItgSpeed' = SelectSpeed(integralTime)
            /\ requests' = <<Command("TIM_ID", "CIT", <<timing_dsp>>),
                             Command("TIM_ID", "SGN", <<gain, ItgSpeed'>>)>>
            /\ replies' = <<r1, r2>>
            /\ ret' = IF r1 = DON THEN 0 ELSE -1
            /\ op' = "ApplyNewIntegralTimeAndGain"
            /\ callTime' = integralTime
            /\ callGain' = gain
            /\ callSpeed' = 0
            /\ lastIntegralTime' = integralTime

\* The whole call: CalculateTiming, the store of ItgSpeed, the call of
\* ApplyGainAndSpeed (its request, reply r1; its return value is not read),
\* then the CIT request (reply r2), which alone decides the return value.
ApplyNewIntegralTimeAndGain ==
    \E integralTime \in CtlDurations, gain \in Gains, r1 \in Replies,
       r2 \in Replies :
        LET timing_dsp == CalculateTiming(integralTime)
        IN  /\ ItgSpeed' = SelectSpeed(integralTime)
            /\ requests' = <<Command("TIM_ID", "SGN", <<gain, ItgSpeed'>>),
                             Command("TIM_ID", "CIT", <<timing_dsp>>)>>
            /\ replies' = <<r1, r2>>
            /\ ret' = IF r2 = DON THEN 0 ELSE -1
            /\ op' = "ApplyNewIntegralTimeAndGain"
            /\ callTime' = integralTime
            /\ callGain' = gain
            /\ callSpeed' = 0
            /\ lastIntegralTime' = integralTime

\* A call of ApplyGainAndSpeed on its own.
ApplyGainAndSpeed ==
    \E gain \in Gains, speed \in Speeds, dReply \in Replies :
        /\ requests' = <<Command("TIM_ID", "SGN", <<gain, speed>>)>>
        /\ replies' = <<dReply>>
        /\ ret' = IF dReply = DON THEN 0 ELSE -1
        /\ op' = "ApplyGainAndSpeed"
        /\ callTime' = 0
        /\ callGain' = gain
        /\ callSpeed' = speed
        /\ UNCHANGED <<ItgSpeed, lastIntegralTime>>

ApplyNewPedestalIntegralWait ==
    \E pedestalWaitTime \in CtlDurations, dReply \in Replies :
        LET timing_dsp == CalculateTiming(pedestalWaitTime)
        IN  /\ requests' = <<Command("TIM_ID", "CPR", <<timing_dsp>>)>>
            /\ replies' = <<dReply>>
            /\ ret' = IF dReply = DON THEN 0 ELSE -1
            /\ op' = "ApplyNewPedestalIntegralWait"
            /\ callTime' = pedestalWaitTime
            /\ callGain' = 0
            /\ callSpeed' = 0
            /\ UNCHANGED <<ItgSpeed, lastIntegralTime>>

ApplyNewSignalIntegralWait ==
    \E signalWaitTime \in CtlDurations, dReply \in Replies :
        LET timing_dsp == CalculateTiming(signalWaitTime)
        IN  /\ requests' = <<Command("TIM_ID", "CPO", <<timing_dsp>>)>>
            /\ replies' = <<dReply>>
            /\ ret' = IF dReply = DON THEN 0 ELSE -1
            /\ op' = "ApplyNewSignalIntegralWait"
            /\ callTime' = signalWaitTime
            /\ callGain' = 0
            /\ callSpeed' = 0
            /\ UNCHANGED <<ItgSpeed, lastIntegralTime>>

ApplyDGWidth ==
    \E newDGWidth \in CtlDurations, dReply \in Replies :
        LET timing_dsp == CalculateTiming(newDGWidth)
        IN  /\ requests' = <<Command("TIM_ID", "DGW", <<timing_dsp>>)>>
            /\ replies' = <<dReply>>
            /\ ret' = IF dReply = DON THEN 0 ELSE -1
            /\ op' = "ApplyDGWidth"
            /\ callTime' = newDGWidth
            /\ callGain' = 0
            /\ callSpeed' = 0
            /\ UNCHANGED <<ItgSpeed, lastIntegralTime>>

ApplyOGWidth ==
    \E newOGWidth \in CtlDurations, dReply \in Replies :
        LET timing_dsp == CalculateTiming(newOGWidth)
        IN  /\ requests' = <<Command("TIM_ID", "OGW", <<timing_dsp>>)>>
            /\ replies' = <<dReply>>
            /\ ret' = IF dReply = DON THEN 0 ELSE -1
            /\ op' = "ApplyOGWidth"
            /\ callTime' = newOGWidth
            /\ callGain' = 0
            /\ callSpeed' = 0
            /\ UNCHANGED <<ItgSpeed, lastIntegralTime>>

ApplySkippingRGWidth ==
    \E newRGWidth \in CtlDurations, dReply \in Replies :
        LET timing_dsp == CalculateTiming(newRGWidth)
        IN  /\ requests' = <<Command("TIM_ID", "RSW", <<timing_dsp>>)>>
            /\ replies' = <<dReply>>
            /\ ret' = IF dReply = DON THEN 0 ELSE -1
            /\ op' = "ApplySkippingRGWidth"
            /\ callTime' = newRGWidth
            /\ callGain' = 0
            /\ callSpeed' = 0
            /\ UNCHANGED <<ItgSpeed, lastIntegralTime>>

ApplySummingWellWidth_IgnoresReply ==
    \E newSWWidth \in CtlDurations, dReply \in Replies :
        LET timing_dsp == CalculateTiming(newSWWidth)
        IN  /\ requests' = <<Command("TIM_ID", "SWW", <<timing_dsp>>)>>
            /\ replies' = <<dReply>>
            /\ ret' = 0
            /\ op' = "ApplySummingWellWidth"
            /\ callTime' = newSWWidth
            /\ callGain' = 0
            /\ callSpeed' = 0
            /\ UNCHANGED <<ItgSpeed, lastIntegralTime>>

ApplySummingWellWidth ==
    \E newSWWidth \in CtlDurations, dReply \in Replies :
        LET timing_dsp == CalculateTiming(newSWWidth)
        IN  /\ requests' = <<Command("TIM_ID", "SWW", <<timing_dsp>>)>>
            /\ replies' = <<dReply>>
            /\ ret' = IF dReply = DON THEN 0 ELSE -1
            /\ op' = "ApplySummingWellWidth"
            /\ callTime' = newSWWidth
            /\ callGain' = 0
            /\ callSpeed' = 0
            /\ UNCHANGED <<ItgSpeed, lastIntegralTime>>

Next ==
    \/ ApplyNewIntegralTimeAndGain
    \/ ApplyGainAndSpeed
    \/ ApplyNewPedestalIntegralWait
    \/ ApplyNewSignalIntegralWait
    \/ ApplyDGWidth
    \/ ApplyOGWidth
    \/ ApplySkippingRGWidth
    \/ ApplySummingWellWidth

Spec == Init /\ [][Next]_vars

-----------------------------------------------------------------------------
(* What the claims speak of, stated apart from the operators above *)

\* The nanoseconds CalculateTiming works on for the recorded argument: the
\* duration after the clamp to 163 us, its fraction of a nanosecond dropped.
QuantNs ==
    (IF callTime > Us(163) THEN Us(163) ELSE callTime) \div TicksPerNs

\* A remainder r modulo m folded to the nearer boundary.
Fold(r, m) == IF r > m \div 2 THEN m - r ELSE r

QuantBigFold == Fold(QuantNs % 320, 320)

QuantLittleFold == Fold(QuantNs % 40, 40)

\* The regime rule: coarse above 4000 ns, and below when the coarse folded
\* remainder is not larger than the fine one.
QuantCoarse == QuantNs > 4000 \/ QuantBigFold <= QuantLittleFold

\* The step count to encode under that rule.
QuantStep == IF QuantCoarse THEN QuantNs \div 320 ELSE QuantNs \div 40

\* The returned code's byte (bits 23-16 and whatever lies above), its regime
\* flag (bit 7 of the byte) and the interval the byte encodes, in ns.
CodeByte == ret \div 65536

CodeFlag == (CodeByte \div 128) % 2

CodeInterval ==
    IF CodeFlag = 1 THEN (CodeByte % 128) * 320 ELSE (CodeByte % 128) * 40

Abs(x) == IF x < 0 THEN 0 - x ELSE x

Min(a, b) == IF a <= b THEN a ELSE b

\* The opcode of each single-command applicator.
SingleOpcode ==
    [ApplyNewPedestalIntegralWait |-> "CPR",
     ApplyNewSignalIntegralWait   |-> "CPO",
     ApplyDGWidth                 |-> "DGW",
     ApplyOGWidth                 |-> "OGW",
     ApplySkippingRGWidth         |-> "RSW",
     ApplySummingWellWidth        |-> "SWW"]

IsSingle == op \in DOMAIN SingleOpcode

IsItg == op = "ApplyNewIntegralTimeAndGain"

IsQuant == op = "CalculateTiming"

-----------------------------------------------------------------------------
(* The claims *)

\* C1: when the reply to the set-gain-speed request of
\* ApplyNewIntegralTimeAndGain is not DON, the call fails at once and the
\* set-integration-time request is never issued: the transport receives
\* exactly one request during the call.
C1_ShortCircuit ==
    (IsItg /\ replies[1] # DON) =>
        /\ Len(requests) = 1
        /\ requests[1].opcode = "SGN"
        /\ ret = -1

\* C2: ApplyNewIntegralTimeAndGain returns success only if both device
\* writes were acknowledged: whenever one of the replies it received is not
\* DON, it returns failure.
C2_SuccessOnlyIfBothAcked ==
    (IsItg /\ \E i \in 1 .. Len(replies) : replies[i] # DON) => ret = -1

\* C3: for every duration in [0,163] us the step count to encode is in
\* [0,127], and the returned code is byte << 16 with byte in 0..255: no bit
\* is set outside bits 23-16.
C3_StepCountInRange ==
    (IsQuant /\ callTime <= Us(163)) =>
        /\ QuantStep \in 0 .. 127
        /\ ret = CodeByte * 65536
        /\ CodeByte \in 0 .. 255

\* C4 as claimed: CalculateTiming of exactly 4.0 us selects the coarse
\* regime, step 12, code byte 0x8C: the code returned is 0x8C0000.
C4_CoarseAt4us ==
    (IsQuant /\ callTime = Us(4)) => ret = 9175040

\* C4 as amended: CalculateTiming of exactly 4.0 us (4000 ns, not > 4000,
\* so the remainders are compared) selects the fine regime: the coarse
\* remainder is 160 (not folded, 160 is not > 160), larger than the fine
\* remainder 0, so the step is 100, the byte 0x64 and the code 0x640000.
C4_FineAt4us ==
    (IsQuant /\ callTime = Us(4)) =>
        /\ QuantBigFold = 160
        /\ QuantLittleFold = 0
        /\ CodeFlag = 0
        /\ CodeByte = 100
        /\ ret = 6553600

C4_Witness == IsQuant /\ callTime = Us(4) /\ ret = 6553600

\* C5: the regime flag (bit 7 of the code byte, bit 23 of the code) is 1 if
\* and only if ns > 4000, or ns <= 4000 and the folded coarse remainder is
\* less than or equal to the folded fine remainder; ties select coarse.
C5_RegimeFlag ==
    IsQuant => (CodeFlag = 1 <=> QuantCoarse)

\* A tie below 4000 ns (300 ns: both folded remainders are 20) with the
\* flag set.
C5_Witness ==
    /\ IsQuant
    /\ QuantNs = 300
    /\ QuantBigFold = QuantLittleFold
    /\ CodeFlag = 1

\* C6: each of the six single-command applicators issues exactly one
\* request, (timing module, its own opcode, CalculateTiming(input)),
\* whatever the reply, and returns success if and only if the reply to it
\* is DON; every other reply gives failure.
C6_SingleCommand ==
    IsSingle =>
        /\ requests =
              <<Command("TIM_ID", SingleOpcode[op], <<CalculateTiming(callTime)>>)>>
        /\ Len(replies) = 1
        /\ ret = 0 <=> replies[1] = DON
        /\ ret # 0 => ret = -1

\* A rejected summing-well width: one request, failure returned.
C6_Witness ==
    /\ op = "ApplySummingWellWidth"
    /\ Len(requests) = 1
    /\ replies = <<57005>>
    /\ ret = -1

\* C7: once ApplyNewIntegralTimeAndGain has been called, and whatever was
\* called since and whatever the transport replied, the stored ItgSpeed is
\* 1 (fast) if and only if the integration time of the latest such call is
\* strictly less than 4.5 us; the other applicators leave it as it is.
C7_SpeedFollowsIntegralTime ==
    lastIntegralTime # -1 =>
        /\ ItgSpeed \in {0, 1}
        /\ ItgSpeed = 1 <=> lastIntegralTime < Ns(4500)

\* 4.5 us itself gives slow, and a single-command applicator called
\* afterwards has left it so.
C7_Witness ==
    /\ IsSingle
    /\ lastIntegralTime = Ns(4500)
    /\ ItgSpeed = 0

\* C8: when the transport replies DON to everything,
\* ApplyNewIntegralTimeAndGain(t, g) issues exactly two requests, first
\* (timing, SGN, g, s) with s = 1 if t < 4.5 us else 0, then
\* (timing, CIT, CalculateTiming(t)), and returns success; for t = 10.0 and
\* g = 5 they are SGN (5, 0) and CIT 0x9F0000.
C8_TwoRequestsInOrder ==
    (IsItg /\ replies = <<DON, DON>>) =>
        /\ requests =
              <<Command("TIM_ID", "SGN",
                        <<callGain, IF callTime < Ns(4500) THEN 1 ELSE 0>>),
                Command("TIM_ID", "CIT", <<CalculateTiming(callTime)>>)>>
        /\ ret = 0
        /\ (callTime = Us(10) /\ callGain = 5) =>
              /\ requests[1].args = <<5, 0>>
              /\ requests[2].args = <<10420224>>

C8_Witness ==
    /\ IsItg
    /\ callTime = Us(10)
    /\ callGain = 5
    /\ replies = <<DON, DON>>
    /\ Len(requests) = 2
    /\ ret = 0

\* C9: for every duration above 163 us CalculateTiming returns the code it
\* returns for 163 us; in particular 164.0 us gives the code of 163.0 us,
\* 0x1FD0000.
C9_ClampEquivalence ==
    (IsQuant /\ callTime > Us(163)) =>
        /\ ret = CalculateTiming(Us(163))
        /\ ret = 33357824

C9_Witness == IsQuant /\ callTime = Us(164) /\ ret = 33357824

\* C10: for every ns in 0..4000 the interval the returned code encodes
\* (step * 320 ns with the flag set, step * 40 ns without) differs from ns
\* by no more than the smaller of the two folded remainders, hence by at
\* most 20 ns.
C10_ClosestMatch ==
    (IsQuant /\ QuantNs <= 4000) =>
        /\ Abs(CodeInterval - QuantNs) <= Min(QuantBigFold, QuantLittleFold)
        /\ Abs(CodeInterval - QuantNs) <= 20

=============================================================================
